---- MODULE Spec2Model ----
(***************************************************************************)
(* A model of react-use-dependency: the DependencyProvider mapping and the *)
(* three resolver hooks useDependency, useComponent and useHook, together  *)
(* with the part of React's render / commit / passive-effect cycle that    *)
(* the hooks rely on (useContext, useState, useEffect).                    *)
(*                                                                         *)
(* JavaScript values are records tagged by "type".  Objects carry their    *)
(* own properties as record fields, so that `'load' in value` is           *)
(* "load" \in DOMAIN value.  Object identity is the "id" field; record     *)
(* equality then coincides with Object.is on the values used here.         *)
(***************************************************************************)
EXTENDS Integers, Sequences, FiniteSets, TLC

VARIABLES
    deps,       \* the mapping given to DependencyProvider (key -> value)
    inst,       \* per hook instance: props, hook state, last render outcome
    promises,   \* promises returned by load() that have not settled yet
    loadCount,  \* per descriptor identity: how often its load was invoked
    requested,  \* identities of the descriptors some render has looked up
    setCalls    \* the calls of setLoaded so far: how many, and the last one

vars == <<deps, inst, promises, loadCount, requested, setCalls>>

----------------------------------------------------------------------------
(* Bounds of the model *)

MaxRenders == 3     \* renders of one hook instance
MaxSwaps == 1       \* times the provider replaces the object under one key

Keys == {"a", "b"}            \* the keys a provider mapping may set
Names == Keys \cup {"constructor"}   \* the keys a hook may be called with
Insts == {1, 2}
Apis == {"useDependency", "useComponent", "useHook"}

----------------------------------------------------------------------------
(* JavaScript values *)

Null == [type |-> "null"]
Undefined == [type |-> "undefined"]
Num(n) == [type |-> "number", v |-> n]
Fn(id, body) == [type |-> "function", id |-> id, body |-> body]
Promise(settle, val) == [type |-> "promise", settle |-> settle, val |-> val]

\* what calling a function does
Returns(v) == [do |-> "return", val |-> v]
Applies == [do |-> "apply"]
Throws == [do |-> "throw"]
Defers(settle, v) == [do |-> "promise", settle |-> settle, val |-> v]

\* the value a function with body Applies returns: it records the arguments
App(f, args) == [type |-> "object", id |-> <<"ret", f.id>>, args |-> args]

Ok(v) == [ok |-> TRUE, val |-> v]
Throw(e) == [ok |-> FALSE, err |-> e]

TypeError(what) == [error |-> "TypeError", what |-> what]
CalleeError(f) == [error |-> "Thrown", by |-> f.id]
UnsetDependency(key, api) == [error |-> "UnsetDependency", key |-> key, api |-> api]
MissingDefaultValue(key) == [error |-> "MissingDefaultValue", key |-> key]

TypeOf(v) ==
    CASE v.type = "null" -> "object"
      [] v.type = "promise" -> "object"
      [] OTHER -> v.type

Truthy(v) ==
    /\ v.type \notin {"null", "undefined"}
    /\ (v.type = "number" => v.v # 0)

\* value[prop], undefined when the property is missing
Get(value, prop) == IF prop \in DOMAIN value THEN value[prop] ELSE Undefined

\* f(...args)
Call(f, args) ==
    IF f.type # "function" THEN Throw(TypeError("not a function"))
    ELSE CASE f.body.do = "return" -> Ok(f.body.val)
           [] f.body.do = "apply" -> Ok(App(f, args))
           [] f.body.do = "throw" -> Throw(CalleeError(f))
           [] f.body.do = "promise" -> Ok(Promise(f.body.settle, f.body.val))

----------------------------------------------------------------------------
(* The hooks, as functions of the context value, the arguments and the    *)
(* useState cell h = [loaded, queue] of the calling hook instance.        *)

\* The mapping is a plain object ({} as DependencyMap, an object literal given
\* to the provider): besides its own keys it has the properties it inherits
\* from Object.prototype, of which the model keeps `constructor`.
ObjectPrototype == [constructor |-> Fn("Object", Applies)]

\* name in dependencies: own and inherited properties
In(name, dependencies) ==
    name \in DOMAIN dependencies \/ name \in DOMAIN ObjectPrototype

\* dependencies[name]
Lookup(dependencies, name) ==
    IF name \in DOMAIN dependencies THEN dependencies[name]
    ELSE IF name \in DOMAIN ObjectPrototype THEN ObjectPrototype[name]
    ELSE Undefined

\* const dependencies = useContext(context); throws when the key is not set
useDependencyInContext(dependencies, name, apiFunction) ==
    IF ~In(name, dependencies)
    THEN Throw(UnsetDependency(name, apiFunction))
    ELSE Ok(Lookup(dependencies, name))

\* typeof value === 'object' && 'load' in value
\* (`in` throws a TypeError when its right operand is null)
isDependencyConfig(value) ==
    IF TypeOf(value) # "object" THEN Ok(FALSE)
    ELSE IF value.type = "null" THEN Throw(TypeError("in"))
    ELSE Ok("load" \in DOMAIN value)

\* React's basic state reducer: a function action is an updater, called with
\* the previous state; any other action is the next state
BasicStateReducer(state, action) ==
    IF action.type = "function" THEN Call(action, <<state>>) ELSE Ok(action)

RECURSIVE ReduceQueue(_, _)
ReduceQueue(state, queue) ==
    IF queue = <<>> THEN Ok(state)
    ELSE LET r == BasicStateReducer(state, Head(queue))
         IN IF r.ok THEN ReduceQueue(r.val, Tail(queue)) ELSE r

\* the arguments of the queued setLoaded calls, oldest first
Actions(queue) == [k \in 1..Len(queue) |-> queue[k].value]

\* const [loaded, setLoaded] = useState(null): the queued setLoaded calls
\* are applied during the render
useState(h) == ReduceQueue(h.loaded, Actions(h.queue))

\* a variant without the final `|| null`: loaded || dynamic.default
LoadedOrDefault_NoNull(loaded, dynamic) ==
    IF Truthy(loaded) THEN loaded ELSE Get(dynamic, "default")

\* loaded || dynamic.default || null
LoadedOrDefault(loaded, dynamic) ==
    IF Truthy(loaded) THEN loaded
    ELSE IF Truthy(Get(dynamic, "default")) THEN Get(dynamic, "default")
    ELSE Null

\* a variant that invokes a synchronous load during the render
useResolvedDependency_EagerLoad(dependency, h) ==
    IF TypeOf(dependency) = "object" /\ dependency.type # "null"
       /\ "load" \in DOMAIN dependency
       /\ dependency.load.type = "function"
       /\ dependency.load.body.do = "return"
    THEN Ok(dependency.load.body.val)
    ELSE Ok(Get(dependency, "default"))

\* the render part of useResolvedDependency
useResolvedDependency(dependency, h) ==
    LET st == useState(h)
        isDynamic == isDependencyConfig(dependency)
    IN  IF ~st.ok THEN st
        ELSE IF ~isDynamic.ok THEN isDynamic
        ELSE IF isDynamic.val THEN Ok(LoadedOrDefault(st.val, dependency))
        ELSE Ok(dependency)

useDependency(dependencies, name, h) ==
    LET dependency == useDependencyInContext(dependencies, name, "useDependency")
    IN  IF ~dependency.ok THEN dependency
        ELSE useResolvedDependency(dependency.val, h)

\* () => null
Placeholder == Fn("placeholder", Returns(Null))

useComponent(dependencies, name, h) ==
    LET dependency == useDependencyInContext(dependencies, name, "useComponent")
        resolved == useResolvedDependency(dependency.val, h)
    IN  IF ~dependency.ok THEN dependency
        ELSE IF ~resolved.ok THEN resolved
        ELSE Ok(IF Truthy(resolved.val) THEN resolved.val ELSE Placeholder)

\* a variant that tests `!resolved` instead of `resolved === null`
useHook_FalsyCheck(dependencies, name, args, h) ==
    LET dependency == useDependencyInContext(dependencies, name, "useHook")
        resolved == useResolvedDependency(dependency.val, h)
    IN  IF ~dependency.ok THEN dependency
        ELSE IF ~resolved.ok THEN resolved
        ELSE IF ~Truthy(resolved.val) THEN Throw(MissingDefaultValue(name))
        ELSE Call(resolved.val, args)

useHook(dependencies, name, args, h) ==
    LET dependency == useDependencyInContext(dependencies, name, "useHook")
        resolved == useResolvedDependency(dependency.val, h)
    IN  IF ~dependency.ok THEN dependency
        ELSE IF ~resolved.ok THEN resolved
        ELSE IF resolved.val = Null THEN Throw(MissingDefaultValue(name))
        ELSE Call(resolved.val, args)

\* the calls useHook makes: resolved(...args), when it gets that far
useHookCalls(dependencies, name, args, h) ==
    LET dependency == useDependencyInContext(dependencies, name, "useHook")
        resolved == useResolvedDependency(dependency.val, h)
    IN  IF dependency.ok /\ resolved.ok /\ resolved.val # Null
           /\ resolved.val.type = "function"
        THEN <<[fn |-> resolved.val, args |-> args]>>
        ELSE <<>>

\* the promise callback: the value handed to setLoaded
ThenCallback(result) ==
    IF TypeOf(result) = "object"
    THEN IF result.type = "null" THEN Throw(TypeError("in"))
         ELSE IF "default" \in DOMAIN result THEN Ok(result.default)
         ELSE Ok(result)
    ELSE Ok(result)

\* a variant without the dependency array: the effect runs after every commit
EffectShouldRun_EveryCommit(isMount, prevDependency, dependency) == TRUE

\* useEffect(..., [dependency]): the effect runs after the first commit and
\* after a commit whose dependency is not Object.is-equal to the last one
EffectShouldRun(isMount, prevDependency, dependency) ==
    isMount \/ prevDependency # dependency

\* a variant that loads an entry of the mapping the render did not ask for
EffectTarget_OtherEntry(i) ==
    IF \E k \in DOMAIN deps : k # inst[i].name
    THEN deps[CHOOSE k \in DOMAIN deps : k # inst[i].name]
    ELSE inst[i].dep

\* the descriptor whose load the effect invokes: the `dynamic` of its render
EffectTarget(i) == inst[i].dep

----------------------------------------------------------------------------
(* The values a provider mapping may hold *)

UseValue == Fn("useValue", Applies)             \* a hook or component
UseDefault == Fn("useDefault", Applies)
Thrower == Fn("thrower", Throws)
Module(v) == [type |-> "object", id |-> <<"module">>, default |-> v]

ObjectId(k, version) == <<k, version>>
ObjectIds == {ObjectId(k, n) : k \in Keys, n \in 0..MaxSwaps}

Plain(k) == [type |-> "object", id |-> ObjectId(k, 0)]
Descriptor(k, load) == [type |-> "object", id |-> ObjectId(k, 0), load |-> load]
DescriptorWithDefault(k, load, default) ==
    [type |-> "object", id |-> ObjectId(k, 0), load |-> load, default |-> default]

LoadResults == {Num(0), Num(1), Null, UseValue, Module(UseValue)}
Defaults == {Num(0), UseDefault}

LoadFunctions ==
    {Fn("load", Returns(v)) : v \in LoadResults}
        \cup {Fn("load", Defers("fulfil", v)) : v \in LoadResults}
        \cup {Fn("load", Defers("reject", Undefined))}

\* what `load` may be: a function, or something that is not callable
Loads == LoadFunctions \cup {Num(1)}

DirectValues(k) == {Null, Undefined, Num(0), Num(1), UseValue, Thrower, Plain(k)}

Descriptors(k) ==
    {Descriptor(k, l) : l \in Loads}
        \cup {DescriptorWithDefault(k, l, d) : l \in Loads, d \in Defaults}

Entries(k) == DirectValues(k) \cup Descriptors(k)

\* the entries of the second key: one of each shape
AlternateEntries(k) ==
    { Num(1),
      Descriptor(k, Fn("load", Returns(Num(1)))),
      DescriptorWithDefault(k, Fn("load", Defers("fulfil", UseValue)), Num(2)) }

EntriesFor(k) == IF k = "a" THEN Entries(k) ELSE AlternateEntries(k)

\* <DependencyProvider value={...}>: any subset of the keys may be set
ProviderValues ==
    UNION { { m \in [K -> UNION {EntriesFor(k) : k \in K}] :
                \A k \in K : m[k] \in EntriesFor(k) } : K \in SUBSET Keys }

\* the argument lists forwarded by useHook
ArgLists == {<<>>, <<Num(1), Num(2)>>}

----------------------------------------------------------------------------
(* Hook instances *)

NoDep == [type |-> "nodep"]
NotRendered == [ok |-> FALSE, err |-> [error |-> "NotRendered"], calls |-> <<>>]

\* the origin of a setLoaded call: the descriptor whose load led to it, and
\* the number of the call in the order of all setLoaded calls
NoUpdate == [of |-> <<"none", 0>>, at |-> 0]
NoCall == [count |-> 0, last |-> [inst |-> 0, value |-> Undefined, of |-> NoUpdate.of]]

\* A hook instance is the hook state of one mount of a component.  While it
\* is not mounted (before the mount, after a teardown) that state does not exist.
\* `applied` is the origin of the setLoaded call that produced `loaded`, and
\* `seen` tells that a result of the current descriptor's load was applied.
Unmounted(api, name, args, out, renders) ==
    [ phase |-> "unmounted", api |-> api, name |-> name, args |-> args,
      loaded |-> Null, queue |-> <<>>, dep |-> NoDep, prevDep |-> NoDep,
      effPending |-> FALSE, stable |-> TRUE,
      applied |-> NoUpdate, seen |-> FALSE,
      out |-> out, renders |-> renders ]

WithCalls(o, calls) ==
    IF o.ok THEN [ok |-> TRUE, val |-> o.val, calls |-> calls]
    ELSE [ok |-> FALSE, err |-> o.err, calls |-> calls]

\* what the component's call of its hook does in one render
HookCall(api, dependencies, name, args, h) ==
    CASE api = "useDependency" ->
            WithCalls(useDependency(dependencies, name, h), <<>>)
      [] api = "useComponent" ->
            WithCalls(useComponent(dependencies, name, h), <<>>)
      [] api = "useHook" ->
            WithCalls(useHook(dependencies, name, args, h),
                      useHookCalls(dependencies, name, args, h))

IsDescriptor(v) == TypeOf(v) = "object" /\ v.type # "null" /\ "load" \in DOMAIN v

Init ==
    /\ deps \in ProviderValues
    /\ inst = [i \in Insts |-> Unmounted("useDependency", "a", <<>>, NotRendered, 0)]
    /\ promises = {}
    /\ loadCount = [id \in ObjectIds |-> 0]
    /\ requested = {}
    /\ setCalls = NoCall

\* the hook state and outcome of instance j after one render with these props
Rendered(j, api, name, args, isMount) ==
    LET old == inst[j]
        h == [loaded |-> old.loaded, queue |-> old.queue]
        out == HookCall(api, deps, name, args, h)
        dependency == Lookup(deps, name)
        last == old.queue[Len(old.queue)]
    IN  IF out.ok
        THEN [ phase |-> "mounted", api |-> api, name |-> name, args |-> args,
               loaded |-> useState(h).val, queue |-> <<>>,
               dep |-> dependency, prevDep |-> old.dep,
               effPending |-> EffectShouldRun(isMount, old.dep, dependency),
               stable |-> isMount \/ (old.stable /\ old.dep = dependency),
               applied |-> IF old.queue = <<>> THEN old.applied
                           ELSE [of |-> last.of, at |-> last.at],
               seen |-> /\ IsDescriptor(dependency)
                        /\ \/ old.dep = dependency /\ old.seen
                           \/ \E k \in 1..Len(old.queue) :
                                 old.queue[k].of = dependency.id,
               out |-> out, renders |-> old.renders + 1 ]
        ELSE Unmounted(api, name, args, out, old.renders + 1)

\* React works off the scheduled state updates in one pass: a mounted
\* instance with queued setLoaded calls is rendered in the pass that renders i
CoRenders(i, j) ==
    j # i /\ inst[j].phase = "mounted" /\ inst[j].queue # <<>>

\* One render pass for instance i and, for what does not throw, its commit.  A
\* render that throws leaves that component unmounted and its hook state
\* discarded (each component is under an error boundary of its own).
RenderCommit(i, api, name, args, isMount) ==
    LET passed == {j \in Insts : j = i \/ CoRenders(i, j)}
    IN  /\ inst' = [j \in Insts |->
                IF j = i THEN Rendered(i, api, name, args, isMount)
                ELSE IF CoRenders(i, j)
                THEN Rendered(j, inst[j].api, inst[j].name, inst[j].args, FALSE)
                ELSE inst[j]]
        /\ requested' = requested \cup
              { Lookup(deps, inst'[j].name).id :
                  j \in {x \in passed : IsDescriptor(Lookup(deps, inst'[x].name))} }
        /\ UNCHANGED <<deps, promises, loadCount, setCalls>>

\* React flushes the passive effects of the last commit before it renders
EffectsFlushed == \A j \in Insts : ~inst[j].effPending

\* the component is rendered for the first time: the instance comes to exist
Mount(i, api, name, args) ==
    /\ inst[i].phase = "unmounted"
    /\ inst[i].renders = 0
    /\ EffectsFlushed
    /\ api = "useHook" \/ args = <<>>
    /\ RenderCommit(i, api, name, args, TRUE)

\* the component renders again (new props, a context change, a state update),
\* at most `bound` times in all
RerenderWithin(i, name, args, bound) ==
    /\ inst[i].phase = "mounted"
    /\ inst[i].renders < bound
    /\ EffectsFlushed
    /\ inst[i].api = "useHook" \/ args = <<>>
    /\ RenderCommit(i, inst[i].api, name, args, FALSE)

Rerender(i, name, args) == RerenderWithin(i, name, args, MaxRenders)

\* a variant that keeps the loaded value in one cell shared by all instances
SetLoaded_Shared(insts, i, value, of) ==
    [j \in Insts |->
        IF insts[j].phase = "mounted"
        THEN [insts[j] EXCEPT !.queue =
                Append(@, [value |-> value, of |-> of, at |-> setCalls.count + 1])]
        ELSE insts[j]]

\* setLoaded(value) of instance i, called for the load of descriptor `of`:
\* queued while the instance is mounted, ignored by React otherwise
SetLoaded(insts, i, value, of) ==
    IF insts[i].phase = "mounted"
    THEN [insts EXCEPT ![i].queue =
            Append(@, [value |-> value, of |-> of, at |-> setCalls.count + 1])]
    ELSE insts

\* the record of one more setLoaded call
Called(i, value, of) ==
    [count |-> setCalls.count + 1, last |-> [inst |-> i, value |-> value, of |-> of]]

\* a variant that takes every value returned by load for a plain value
IsPromise_Never(value) == FALSE

\* value instanceof Promise
IsPromise(value) == value.type = "promise"

\* the passive effect of the last commit of instance i
RunEffect(i) ==
    LET me == inst[i]
        dynamic == EffectTarget(i)
        load == Get(dynamic, "load")
        value == Call(load, <<>>)
        done == [inst EXCEPT ![i].effPending = FALSE]
    IN  /\ me.phase = "mounted"
        /\ me.effPending
        /\ UNCHANGED <<deps, requested>>
        /\ IF ~IsDescriptor(dynamic)
           THEN /\ inst' = done
                /\ UNCHANGED <<promises, loadCount, setCalls>>
           ELSE /\ loadCount' =
                    IF load.type = "function"
                    THEN [loadCount EXCEPT ![dynamic.id] = @ + 1]
                    ELSE loadCount
                /\ IF ~value.ok
                   THEN \* the effect throws: React unmounts the tree
                        /\ inst' = [inst EXCEPT ![i] =
                              Unmounted(me.api, me.name, me.args, me.out,
                                        me.renders)]
                        /\ UNCHANGED <<promises, setCalls>>
                   ELSE IF IsPromise(value.val)
                   THEN /\ inst' = done
                        /\ promises' = promises \cup
                              {[ inst |-> i, of |-> dynamic.id,
                                 n |-> loadCount'[dynamic.id], p |-> value.val ]}
                        /\ UNCHANGED setCalls
                   ELSE /\ inst' = SetLoaded(done, i, value.val, dynamic.id)
                        /\ setCalls' = Called(i, value.val, dynamic.id)
                        /\ UNCHANGED promises

\* a variant with one callback for both outcomes: value.then(cb, cb)
Then_BothOutcomes(promise) == ThenCallback(promise.val)

\* value.then(callback): the callback runs when the promise fulfils; a
\* rejection finds no handler and is passed on to the derived promise
Then(promise) ==
    IF promise.settle = "fulfil" THEN ThenCallback(promise.val)
    ELSE Throw([error |-> "Rejected", reason |-> promise.val])

\* a pending promise settles and its `then` callback, if any, runs
Settle(p) ==
    LET cb == Then(p.p)
    IN  /\ p \in promises
        /\ promises' = promises \ {p}
        /\ inst' = IF cb.ok THEN SetLoaded(inst, p.inst, cb.val, p.of) ELSE inst
        /\ setCalls' = IF cb.ok THEN Called(p.inst, cb.val, p.of) ELSE setCalls
        /\ UNCHANGED <<deps, loadCount, requested>>

\* the component is torn down (React flushes the passive effects of the last
\* commit first); the effect has no cleanup
Unmount(i) ==
    LET me == inst[i]
    IN  /\ me.phase = "mounted"
        /\ ~me.effPending
        /\ inst' = [inst EXCEPT ![i] =
              Unmounted(me.api, me.name, me.args, me.out, me.renders)]
        /\ UNCHANGED <<deps, promises, loadCount, requested, setCalls>>

\* the provider is rendered with a new mapping in which the object under key
\* k, which a mounted component uses, is a new object with the same properties
SwapObject(k) ==
    /\ k \in DOMAIN deps
    /\ TypeOf(deps[k]) = "object" /\ deps[k].type # "null"
    /\ deps[k].id[2] < MaxSwaps
    /\ \E i \in Insts : inst[i].phase = "mounted" /\ inst[i].name = k
    /\ deps' = [deps EXCEPT ![k].id = ObjectId(k, @[2] + 1)]
    /\ UNCHANGED <<inst, promises, loadCount, requested, setCalls>>

\* the hook instances of Spec
SpecInsts == {1}

Next ==
    \/ \E i \in SpecInsts, api \in Apis, name \in Names, args \in ArgLists :
          Mount(i, api, name, args)
    \/ \E i \in SpecInsts, name \in Names, args \in ArgLists : Rerender(i, name, args)
    \/ \E i \in SpecInsts : RunEffect(i)
    \/ \E p \in promises : Settle(p)
    \/ \E i \in SpecInsts : Unmount(i)
    \/ \E k \in Keys : SwapObject(k)

Spec == Init /\ [][Next]_vars

----------------------------------------------------------------------------
(* A component that is rendered once more than in Spec, over a mapping of  *)
(* two lazy entries: room for a load to settle after a later one was       *)
(* applied and shown.                                                      *)

LateEntries(k) ==
    IF k = "a"
    THEN { Descriptor(k, Fn("load", Defers("fulfil", Num(1)))),
           DescriptorWithDefault(k, Fn("load", Defers("fulfil", Num(1))), UseDefault),
           Descriptor(k, Fn("load", Defers("reject", Undefined))) }
    ELSE { Descriptor(k, Fn("load", Returns(Num(2)))),
           Descriptor(k, Fn("load", Defers("fulfil", Num(2)))),
           Num(2) }

InitLate ==
    /\ deps \in {m \in [Keys -> UNION {LateEntries(k) : k \in Keys}] :
                    \A k \in Keys : m[k] \in LateEntries(k)}
    /\ inst = [i \in Insts |-> Unmounted("useDependency", "a", <<>>, NotRendered, 0)]
    /\ promises = {}
    /\ loadCount = [id \in ObjectIds |-> 0]
    /\ requested = {}
    /\ setCalls = NoCall

NextLate ==
    \/ \E i \in SpecInsts, api \in Apis, name \in Keys : Mount(i, api, name, <<>>)
    \/ \E i \in SpecInsts, name \in Keys :
          RerenderWithin(i, name, <<>>, MaxRenders + 1)
    \/ \E i \in SpecInsts : RunEffect(i)
    \/ \E p \in promises : Settle(p)
    \/ \E i \in SpecInsts : Unmount(i)
    \/ \E k \in Keys : SwapObject(k)

SpecLate == InitLate /\ [][NextLate]_vars

----------------------------------------------------------------------------
(* Two components under one provider, each with one hook instance, on the  *)
(* same key or on different keys.                                          *)

TwoEntries(k) ==
    IF k = "a"
    THEN { Descriptor(k, Fn("load", Defers("fulfil", Num(1)))),
           Descriptor(k, Fn("load", Defers("reject", Undefined))) }
    ELSE { Descriptor(k, Fn("load", Defers("fulfil", Num(2)))),
           Descriptor(k, Fn("load", Returns(Num(2)))) }

InitTwo ==
    /\ deps \in {m \in [Keys -> UNION {TwoEntries(k) : k \in Keys}] :
                    \A k \in Keys : m[k] \in TwoEntries(k)}
    /\ inst = [i \in Insts |-> Unmounted("useDependency", "a", <<>>, NotRendered, 0)]
    /\ promises = {}
    /\ loadCount = [id \in ObjectIds |-> 0]
    /\ requested = {}
    /\ setCalls = NoCall

NextTwo ==
    \/ \E i \in Insts, name \in Keys : Mount(i, "useDependency", name, <<>>)
    \/ \E i \in Insts, name \in Keys : RerenderWithin(i, name, <<>>, MaxRenders - 1)
    \/ \E i \in Insts : RunEffect(i)
    \/ \E p \in promises : Settle(p)
    \/ \E i \in Insts : Unmount(i)

SpecTwo == InitTwo /\ [][NextTwo]_vars

----------------------------------------------------------------------------
(* Vocabulary of the properties *)

Returned(v) == [ok |-> TRUE, val |-> v, calls |-> <<>>]
Threw(e) == [ok |-> FALSE, err |-> e, calls |-> <<>>]

\* the step is a render of instance i (a mount or a re-render)
RenderStep(i) == inst'[i].renders = inst[i].renders + 1

\* the useState cell the render of instance i starts from
HookCell(i) == [loaded |-> inst[i].loaded, queue |-> inst[i].queue]

\* the step is the effect pass of instance i
EffectStep(i) == inst[i].effPending /\ ~inst'[i].effPending

Mounted(i) == inst[i].phase = "mounted"
HasCallableLoad(d) == IsDescriptor(d) /\ d.load.type = "function"
SyncLoad(d) == HasCallableLoad(d) /\ d.load.body.do = "return"
DeferredLoad(d) == HasCallableLoad(d) /\ d.load.body.do = "promise"
HasDefault(d) == "default" \in DOMAIN d
RejectingLoad(d) == DeferredLoad(d) /\ d.load.body.settle = "reject"

\* the load of instance i's descriptor has not been applied to its state yet
LoadNotApplied(i) ==
    \/ inst[i].effPending
    \/ \E p \in promises : p.inst = i
    \/ inst[i].queue # <<>>

----------------------------------------------------------------------------
(* C1, as claimed: a render of any of the three entry points with a key    *)
(* that is not in the provider's mapping throws UnsetDependency naming     *)
(* that key and that entry point, and the render invokes no load function. *)
C1_UnsetDependencyThrown ==
    [][\A i \in Insts :
         (RenderStep(i) /\ inst'[i].name \notin DOMAIN deps) =>
            /\ inst'[i].out = Threw(UnsetDependency(inst'[i].name, inst'[i].api))
            /\ loadCount' = loadCount
            /\ promises' = promises]_vars

(* C2, as claimed: every render of useDependency with a key mapped to a    *)
(* value that is not a descriptor returns exactly that value, invokes no   *)
(* load and leaves the resolution state as it was.                         *)
C2_DirectValueReturned ==
    [][\A i \in Insts :
         (/\ RenderStep(i)
          /\ inst'[i].api = "useDependency"
          /\ inst'[i].name \in DOMAIN deps
          /\ ~IsDescriptor(deps[inst'[i].name])) =>
            /\ inst'[i].out = Returned(deps[inst'[i].name])
            /\ loadCount' = loadCount
            /\ inst'[i].loaded = inst[i].loaded]_vars

(* C3, as claimed: once a useDependency instance has rendered, run its     *)
(* effect and rendered again on one descriptor whose load returns a value  *)
(* synchronously, it returns the value load returned, whatever that value  *)
(* is, and load has been invoked exactly once.                             *)
C3_SyncLoadResolved ==
    \A i \in Insts :
        (/\ Mounted(i)
         /\ inst[i].api = "useDependency"
         /\ inst[i].stable
         /\ SyncLoad(inst[i].dep)
         /\ inst[i].renders >= 2) =>
            /\ inst[i].out = Returned(inst[i].dep.load.body.val)
            /\ loadCount[inst[i].dep.id] = 1

(* C4, as claimed: for a descriptor with a configured default whose load   *)
(* returns a promise, the first render of useDependency returns the        *)
(* default, and once the promise has fulfilled and the update has been     *)
(* applied the renders return the settled result, or its `default`         *)
(* property when it is an object that has one.                             *)
C4_DeferredLoadWithDefault ==
    \A i \in Insts :
        (/\ Mounted(i)
         /\ inst[i].api = "useDependency"
         /\ inst[i].stable
         /\ DeferredLoad(inst[i].dep)
         /\ inst[i].dep.load.body.settle = "fulfil"
         /\ inst[i].dep.load.body.val # Null
         /\ HasDefault(inst[i].dep)) =>
            LET settled == inst[i].dep.load.body.val
            IN  /\ inst[i].renders = 1 => inst[i].out = Returned(inst[i].dep.default)
                /\ (inst[i].renders >= 2 /\ ~LoadNotApplied(i)) =>
                      inst[i].out = Returned(IF HasDefault(settled)
                                             THEN settled.default ELSE settled)

(* C5, as claimed: a render of useHook with a present key throws           *)
(* MissingDefaultValue naming the key exactly when useDependency, called   *)
(* with the same key in the same state, would return null; every other     *)
(* such render calls the resolved value once with the forwarded arguments  *)
(* and returns the result of that call.                                    *)
C5_UseHookOriginal ==
    [][\A i \in Insts :
         (/\ RenderStep(i)
          /\ inst'[i].api = "useHook"
          /\ inst'[i].name \in DOMAIN deps) =>
            LET name == inst'[i].name
                args == inst'[i].args
                resolved == useDependency(deps, name, HookCell(i))
                call == [fn |-> resolved.val, args |-> args]
            IN  IF resolved.ok /\ resolved.val = Null
                THEN inst'[i].out = Threw(MissingDefaultValue(name))
                ELSE /\ resolved.ok
                     /\ resolved.val.type = "function"
                     /\ inst'[i].out =
                          WithCalls(Call(resolved.val, args), <<call>>)]_vars

(* C5, amended: a render of useHook with a present key throws              *)
(* MissingDefaultValue naming the key exactly when useDependency, called   *)
(* with the same key in the same state, would return null.  When           *)
(* useDependency would throw, useHook throws the same error and calls      *)
(* nothing; when it would return a function, useHook calls it once with    *)
(* the forwarded arguments, in order, and returns the result of that call  *)
(* or throws what the call throws; when it would return any other value,   *)
(* useHook throws a TypeError and calls nothing.                           *)
C5_UseHookAmended ==
    [][\A i \in Insts :
         (/\ RenderStep(i)
          /\ inst'[i].api = "useHook"
          /\ inst'[i].name \in DOMAIN deps) =>
            LET name == inst'[i].name
                args == inst'[i].args
                resolved == useDependency(deps, name, HookCell(i))
                call == [fn |-> resolved.val, args |-> args]
                out == inst'[i].out
            IN  /\ (out = Threw(MissingDefaultValue(name)))
                      <=> (resolved.ok /\ resolved.val = Null)
                /\ ~resolved.ok => out = Threw(resolved.err)
                /\ (resolved.ok /\ resolved.val.type = "function") =>
                      out = WithCalls(Call(resolved.val, args), <<call>>)
                /\ (resolved.ok /\ resolved.val.type \notin {"function", "null"}) =>
                      out = Threw(TypeError("not a function"))]_vars

C5_Witness ==
    \E i \in Insts :
        /\ Mounted(i)
        /\ inst[i].api = "useHook"
        /\ DeferredLoad(inst[i].dep)
        /\ inst[i].renders >= 2
        /\ inst[i].args = <<Num(1), Num(2)>>
        /\ inst[i].out.calls = <<[fn |-> UseDefault, args |-> <<Num(1), Num(2)>>]>>
        /\ inst[i].out = WithCalls(Ok(App(UseDefault, <<Num(1), Num(2)>>)),
                                   inst[i].out.calls)

(* C6, as claimed: every render of useComponent with a present key returns *)
(* a value that is not null: the value useDependency would return when     *)
(* that value is usable, and otherwise a placeholder component whose call  *)
(* yields null.                                                            *)
C6_UseComponentNeverNull ==
    [][\A i \in Insts :
         (/\ RenderStep(i)
          /\ inst'[i].api = "useComponent"
          /\ inst'[i].name \in DOMAIN deps) =>
            LET resolved == useDependency(deps, inst'[i].name, HookCell(i))
                out == inst'[i].out
            IN  /\ out.ok
                /\ out.val # Null
                /\ IF resolved.ok /\ Truthy(resolved.val)
                   THEN out.val = resolved.val
                   ELSE Call(out.val, <<>>) = Ok(Null)]_vars

(* C7: a useDependency instance that has rendered one descriptor since its *)
(* mount, whose load returns a promise and which has no default, returns   *)
(* null on every render until the promise has settled and the update has   *)
(* been applied.                                                           *)
C7_NullUntilApplied ==
    \A i \in Insts :
        (/\ Mounted(i)
         /\ inst[i].api = "useDependency"
         /\ inst[i].stable
         /\ DeferredLoad(inst[i].dep)
         /\ ~HasDefault(inst[i].dep)
         /\ LoadNotApplied(i)) =>
            inst[i].out = Returned(Null)

C7_Witness ==
    \E i \in Insts, p \in promises :
        /\ Mounted(i)
        /\ inst[i].api = "useDependency"
        /\ inst[i].stable
        /\ ~HasDefault(inst[i].dep)
        /\ p.inst = i /\ p.of = inst[i].dep.id
        /\ inst[i].renders >= 2
        /\ inst[i].out = Returned(Null)

(* C8: the load of a descriptor has been invoked only if some render has   *)
(* looked that descriptor up: a descriptor no render has requested has an  *)
(* invocation count of zero.                                               *)
C8_OnlyRequestedLoaded ==
    \A id \in ObjectIds : id \notin requested => loadCount[id] = 0

C8_Witness ==
    \E k1, k2 \in DOMAIN deps :
        /\ HasCallableLoad(deps[k1]) /\ loadCount[deps[k1].id] > 0
        /\ HasCallableLoad(deps[k2]) /\ deps[k2].id \notin requested
        /\ \E i \in Insts : inst[i].renders >= 2

(* C9: load is invoked only in the effect pass of an instance, once, for   *)
(* the descriptor of its last render, and only after its first render or   *)
(* after a render that saw another object than the render before it; a     *)
(* re-render that sees the same object schedules no effect pass, and one   *)
(* that sees another descriptor schedules one, which invokes its load.     *)
C9_LoadOnlyOnIdentityChange ==
    [][/\ loadCount' # loadCount =>
            \E i \in Insts :
               /\ Mounted(i)
               /\ EffectStep(i)
               /\ inst[i].prevDep = NoDep \/ inst[i].prevDep # inst[i].dep
               /\ loadCount' = [loadCount EXCEPT ![inst[i].dep.id] = @ + 1]
       /\ \A i \in Insts :
            /\ (Mounted(i) /\ RenderStep(i) /\ inst'[i].phase = "mounted") =>
                  inst'[i].effPending <=> (inst'[i].dep # inst[i].dep)
            /\ (Mounted(i) /\ EffectStep(i) /\ HasCallableLoad(inst[i].dep)) =>
                  loadCount'[inst[i].dep.id] = loadCount[inst[i].dep.id] + 1]_vars

C9_Witness ==
    \E i \in Insts :
        /\ Mounted(i)
        /\ inst[i].renders = 3
        /\ HasCallableLoad(inst[i].dep)
        /\ inst[i].prevDep = inst[i].dep
        /\ inst[i].dep.id[2] = 1
        /\ ~inst[i].stable
        /\ loadCount[inst[i].dep.id] = 1
        /\ loadCount[ObjectId(inst[i].name, 0)] = 1

(* C10, as claimed: on the render at which the descriptor of a             *)
(* useDependency instance changes, and until the load of the new           *)
(* descriptor has been invoked, the hook returns the default of the new    *)
(* descriptor or null, never the value loaded for the previous descriptor. *)
C10_LoadedResetOnChange ==
    \A i \in Insts :
        (/\ Mounted(i)
         /\ inst[i].api = "useDependency"
         /\ inst[i].prevDep # NoDep
         /\ inst[i].prevDep # inst[i].dep
         /\ IsDescriptor(inst[i].dep)
         /\ inst[i].effPending) =>
            \/ inst[i].out = Returned(Null)
            \/ HasDefault(inst[i].dep)
                  /\ inst[i].out = Returned(inst[i].dep.default)

(* C11, as claimed: once a result of the load of the instance's current   *)
(* descriptor has been applied to its state, every later render that sees  *)
(* the same descriptor returns what the render before it returned; the     *)
(* settlement of a load started for an earlier descriptor changes nothing. *)
C11_ResolvedStaysStable ==
    [][\A i \in Insts :
         (/\ Mounted(i) /\ inst[i].seen
          /\ RenderStep(i)
          /\ inst'[i].phase = "mounted"
          /\ inst'[i].args = inst[i].args
          /\ inst'[i].dep = inst[i].dep) =>
            inst'[i].out = inst[i].out]_vars

(* C12, as claimed: when a promise returned by load fulfils, setLoaded of  *)
(* the hook instance that invoked the load is called with the result (its  *)
(* `default` property for a module-style wrapper), whether or not that     *)
(* instance is still mounted or still on the same descriptor.              *)
C12_FulfilmentCallsSetter ==
    [][\A p \in promises :
         (p \notin promises' /\ p.p.settle = "fulfil") =>
            LET result == p.p.val
                unwrapped == IF TypeOf(result) = "object" /\ "default" \in DOMAIN result
                             THEN result.default ELSE result
            IN  setCalls' = [count |-> setCalls.count + 1,
                             last |-> [inst |-> p.inst, value |-> unwrapped,
                                       of |-> p.of]]]_vars

(* C13, as claimed: the first render of a hook instance on a descriptor    *)
(* whose load returns a value synchronously returns that value (taken here *)
(* for a truthy value that is not a function); useHook does not throw      *)
(* MissingDefaultValue on it.                                              *)
C13_SyncLoadImmediate ==
    [][\A i \in Insts :
         LET d == Lookup(deps, inst'[i].name)
         IN  (/\ RenderStep(i) /\ inst[i].renders = 0
              /\ inst'[i].name \in DOMAIN deps
              /\ SyncLoad(d)
              /\ Truthy(d.load.body.val) /\ d.load.body.val.type # "function") =>
                /\ inst'[i].api = "useDependency" =>
                      inst'[i].out = Returned(d.load.body.val)
                /\ inst'[i].api = "useHook" =>
                      (~inst'[i].out.ok =>
                          inst'[i].out.err # MissingDefaultValue(inst'[i].name))]_vars

(* C13, amended: load is not invoked during a render.  The first render of *)
(* a hook instance on a descriptor with a synchronous load returns the     *)
(* descriptor's default when that is truthy and the null sentinel          *)
(* otherwise (on the null sentinel useHook throws MissingDefaultValue, and *)
(* the instance never comes to its effect); the effect pass after that     *)
(* render invokes load once and calls setLoaded with its return value,     *)
(* which is queued for the next render.                                    *)
C13_SyncLoadAfterFirstRender ==
    [][\A i \in Insts :
         /\ LET d == Lookup(deps, inst'[i].name)
                first == IF HasDefault(d) /\ Truthy(d.default) THEN d.default ELSE Null
            IN  (/\ RenderStep(i) /\ inst[i].renders = 0
                 /\ inst'[i].name \in DOMAIN deps
                 /\ SyncLoad(d)) =>
                   /\ loadCount' = loadCount /\ setCalls' = setCalls
                   /\ inst'[i].api = "useDependency" =>
                         inst'[i].out = Returned(first)
                   /\ (inst'[i].api = "useHook" /\ first = Null) =>
                         /\ inst'[i].out = Threw(MissingDefaultValue(inst'[i].name))
                         /\ inst'[i].phase = "unmounted"
                         /\ ~inst'[i].effPending
         /\ LET d == inst[i].dep
            IN  (EffectStep(i) /\ SyncLoad(d)) =>
                   /\ loadCount' = [loadCount EXCEPT ![d.id] = @ + 1]
                   /\ setCalls'.count = setCalls.count + 1
                   /\ setCalls'.last = [inst |-> i, value |-> d.load.body.val,
                                        of |-> d.id]
                   /\ inst'[i].out = inst[i].out
                   /\ Len(inst'[i].queue) = Len(inst[i].queue) + 1
                   /\ inst'[i].queue[Len(inst'[i].queue)].value = d.load.body.val]_vars

\* the effect pass after the first render has called setLoaded(1); the render
\* itself returned the null sentinel
C13_Witness ==
    /\ Mounted(1) /\ inst[1].api = "useDependency"
    /\ inst[1].renders = 1 /\ ~inst[1].effPending
    /\ SyncLoad(inst[1].dep) /\ ~HasDefault(inst[1].dep)
    /\ inst[1].dep.load.body.val = Num(1)
    /\ inst[1].out = Returned(Null)
    /\ Len(inst[1].queue) = 1 /\ inst[1].queue[1].value = Num(1)
    /\ setCalls.count = 1

(* C14, as claimed: a render of useDependency with a key of the mapping    *)
(* whose entry has no callable `load` (null, a primitive, a function, an   *)
(* object without `load` or with a `load` that is not a function) returns  *)
(* that entry as it is, and classifying an entry never raises an error:    *)
(* neither the render nor the effect pass after it throws a TypeError.     *)
C14_LazyIffCallableLoad ==
    [][\A i \in Insts :
         /\ LET entry == Lookup(deps, inst'[i].name)
            IN  (/\ RenderStep(i) /\ inst'[i].api = "useDependency"
                 /\ inst'[i].name \in DOMAIN deps) =>
                   /\ inst'[i].out.ok
                   /\ ~HasCallableLoad(entry) => inst'[i].out = Returned(entry)
         /\ (EffectStep(i) /\ ~HasCallableLoad(inst[i].dep)) =>
               /\ inst'[i].phase = "mounted"
               /\ loadCount' = loadCount]_vars

(* C15: resolution state belongs to one hook instance.  The effect pass   *)
(* of an instance invokes the load of its own descriptor, whether or not   *)
(* another instance has loaded the same descriptor, and leaves the other   *)
(* instance as it is; the settlement of a promise of one instance leaves   *)
(* the other instance as it is; `loaded` and the returned value of an      *)
(* instance change only in a render of that instance, from its own queue.  *)
C15_StatePerInstance ==
    [][\A i \in Insts :
         /\ \A j \in Insts \ {i} :
              /\ EffectStep(i) => inst'[j] = inst[j]
              /\ \A p \in promises :
                    (p \notin promises' /\ p.inst = i) => inst'[j] = inst[j]
         /\ (EffectStep(i) /\ HasCallableLoad(inst[i].dep)) =>
               loadCount' = [loadCount EXCEPT ![inst[i].dep.id] = @ + 1]
         /\ (Mounted(i) /\ inst'[i].phase = "mounted"
             /\ inst'[i].loaded # inst[i].loaded) =>
               /\ RenderStep(i)
               /\ inst[i].queue # <<>>
               /\ inst'[i].loaded = useState(HookCell(i)).val
         /\ inst'[i].out # inst[i].out => RenderStep(i)]_vars

\* two instances on the same descriptor, each with a load of its own: the
\* first has its result, the second still waits for its promise
C15_Witness ==
    /\ Mounted(1) /\ Mounted(2)
    /\ inst[1].dep = inst[2].dep
    /\ DeferredLoad(inst[1].dep)
    /\ loadCount[inst[1].dep.id] = 2
    /\ inst[1].loaded = Num(1) /\ inst[1].out = Returned(Num(1))
    /\ inst[2].loaded = Null /\ inst[2].out = Returned(Null)
    /\ \E p \in promises : p.inst = 2

(* C16: state updates are applied in the order of settlement and never     *)
(* before it.  A setLoaded call is queued only in the step in which a      *)
(* promise of that instance fulfils (or in the effect pass of a            *)
(* synchronous load), the calls wait in the order in which they were made, *)
(* and no call is applied by a render while a call made before it still    *)
(* waits, whichever load was invoked first.                                *)
C16_AppliedInSettlementOrder ==
    [][\A j \in Insts :
         LET q == inst[j].queue
             q2 == inst'[j].queue
         IN  /\ \A k \in 1..Len(q2) :
                  /\ k > 1 => q2[k - 1].at < q2[k].at
                  /\ \A i \in Insts : q2[k].at > inst'[i].applied.at
             /\ Len(q2) > Len(q) =>
                  /\ Len(q2) = Len(q) + 1
                  /\ \/ EffectStep(j) /\ SyncLoad(inst[j].dep)
                        /\ q2[Len(q2)].of = inst[j].dep.id
                     \/ \E p \in promises :
                          /\ p \notin promises' /\ p.inst = j
                          /\ p.p.settle = "fulfil" /\ p.of = q2[Len(q2)].of
             /\ inst'[j].applied # inst[j].applied =>
                  \/ inst'[j].phase = "unmounted"
                  \/ /\ RenderStep(j) /\ q # <<>>
                     /\ inst'[j].applied.at = q[Len(q)].at]_vars

\* the promises of two deferred loads for different keys have settled, the
\* load for b first, and both updates have been applied
C16_Witness ==
    /\ Mounted(1) /\ Mounted(2)
    /\ inst[1].name = "a" /\ inst[2].name = "b"
    /\ DeferredLoad(inst[1].dep) /\ DeferredLoad(inst[2].dep)
    /\ inst[2].applied = [of |-> inst[2].dep.id, at |-> 1]
    /\ inst[1].applied = [of |-> inst[1].dep.id, at |-> 2]
    /\ inst[1].loaded = Num(1) /\ inst[2].loaded = Num(2)
    /\ promises = {}

====
